---- MODULE Spec2Model ----
(***************************************************************************)
(* Model of humann2src/utilities.py: the external-tool execution engine    *)
(* (check_outfiles, execute_command), the parallel dispatcher              *)
(* (MultiprocessingWorker, command_multiprocessing) and the fasta chunker  *)
(* (break_up_fasta_file).                                                  *)
(*                                                                         *)
(* Three specifications share the module:                                  *)
(*   ExecSpec      runs of execute_command on a small file system          *)
(*   DispatchSpec  one call of command_multiprocessing                     *)
(*   ChunkSpec     one call of break_up_fasta_file                         *)
(***************************************************************************)
EXTENDS Integers, Sequences, FiniteSets, TLC

\* ------------------------------------------------------------------ bounds
NumFiles   == 2    \* paths of the modelled file system
MaxArgs    == 3    \* invocations in one dispatched batch
MaxThreads == 3    \* largest value of the threads argument
MaxLines   == 5    \* lines of the fasta source
MaxSeqs    == 3    \* largest value of max_seqs

Files == 1..NumFiles

VARIABLES
    \* ---- execute_command / check_outfiles
    fs,           \* the file system: Files -> [isfile, size, readable]
    resume,       \* config.resume
    exeInPath,    \* whether exe resolves in $PATH (find_exe_in_path)
    infiles,      \* declared inputs  (sequence of paths)
    outfiles,     \* declared outputs (sequence of paths)
    stdout_file,  \* <<>> (None) or <<path>>
    stdin_file,   \* <<>> (None) or <<path>>
    pc,           \* position inside execute_command
    exc,          \* exception execute_command raised, "" when none
    bypass,       \* value returned by check_outfiles in this run
    childStarts,  \* child processes started in this run
    exitStatus,   \* "none" | "zero" | "nonzero" | "nostart"
    fs0,          \* the file system when the run began
    fresh,        \* files created during this run
    delFailed,    \* files whose os.unlink raised OSError in this run
    prevFailed,   \* whether the previous run of this invocation failed
    \* ---- command_multiprocessing / MultiprocessingWorker
    threads,      \* the threads argument
    lock,         \* the lock argument (persistent workers when set)
    args,         \* per invocation, what function does on it: "ok" | "fail"
    dpc,          \* position of the dispatcher inside command_multiprocessing
    dexc,         \* exception raised inside the dispatcher's try, "" when none
    wexc,         \* first exception raised inside a persistent worker, "" when none
    work_queue,   \* JoinableQueue: indices of the submitted invocations
    unfinished,   \* JoinableQueue: count of unfinished tasks
    results_queue,\* Queue of results (persistent-worker mode)
    results,      \* the results list of the dispatcher
    wpc,          \* per worker: position inside run / the pool's worker loop
    wcur,         \* per worker: the invocation it holds, 0 when none
    slots,        \* pool.map: result per submitted position, 0 when not in
    nput,         \* how many of args the put loop has queued
    dcur,         \* sequential mode: the invocation being called, 0 when none
    started,      \* invocations in the order their function call began
    finished,     \* invocations in the order their function call ended
    \* ---- break_up_fasta_file
    lines,        \* the source file: a sequence of ">" (header) / "s" lines
    max_seqs,     \* the max_seqs argument
    cpc,          \* "loop" | "done"
    pos,          \* index of the line readline returned last
    current_seq,  \* current_seq
    fasta_files   \* chunk files in list order, each the line numbers written

execVars == <<fs, resume, exeInPath, infiles, outfiles, stdout_file, stdin_file,
              pc, exc, bypass, childStarts, exitStatus, fs0, fresh, delFailed,
              prevFailed>>

dispVars == <<threads, lock, args, dpc, dexc, wexc, work_queue, unfinished,
              results_queue, results, wpc, wcur, slots, nput, dcur,
              started, finished>>

chunkVars == <<lines, max_seqs, cpc, pos, current_seq, fasta_files>>

vars == <<execVars, dispVars, chunkVars>>

Workers == 1..MaxThreads

\* the parts of the state a specification does not use stay as set here
ExecIdle ==
    /\ fs = [f \in Files |-> [isfile |-> FALSE, size |-> 0, readable |-> FALSE]]
    /\ resume = FALSE
    /\ exeInPath = FALSE
    /\ infiles = <<>>
    /\ outfiles = <<>>
    /\ stdout_file = <<>>
    /\ stdin_file = <<>>
    /\ pc = "idle"
    /\ exc = ""
    /\ bypass = FALSE
    /\ childStarts = 0
    /\ exitStatus = "none"
    /\ fs0 = fs
    /\ fresh = {}
    /\ delFailed = {}
    /\ prevFailed = FALSE

DispIdle ==
    /\ threads = 1
    /\ lock = FALSE
    /\ args = <<>>
    /\ dpc = "idle"
    /\ dexc = ""
    /\ wexc = ""
    /\ work_queue = <<>>
    /\ unfinished = 0
    /\ results_queue = <<>>
    /\ results = <<>>
    /\ wpc = [w \in Workers |-> "none"]
    /\ wcur = [w \in Workers |-> 0]
    /\ slots = <<>>
    /\ nput = 0
    /\ dcur = 0
    /\ started = <<>>
    /\ finished = <<>>

ChunkIdle ==
    /\ lines = <<>>
    /\ max_seqs = 1
    /\ cpc = "idle"
    /\ pos = 0
    /\ current_seq = 0
    /\ fasta_files = <<>>

\* ------------------------------------------------------------- file system
Absent == [isfile |-> FALSE, size |-> 0, readable |-> FALSE]

FileStates ==
    {Absent} \cup [isfile : {TRUE}, size : {0, 1}, readable : BOOLEAN]

Range(s) == {s[i] : i \in 1..Len(s)}

\* the lists a caller declares: paths in increasing order, without repeats
PathLists ==
    {s \in UNION {[1..n -> Files] : n \in 0..NumFiles} :
        \A i \in 1..Len(s), j \in 1..Len(s) : i < j => s[i] < s[j]}

Redirects == {<<>>} \cup {<<f>> : f \in Files}

\* file_exists_readable(file, raise_IOError=True): TRUE when it returns,
\* FALSE when it raises IOError
file_exists_readable(fsys, file) ==
    /\ fsys[file].isfile
    /\ fsys[file].readable

\* remove_file: unlink when the path is a file; an OSError is swallowed
remove_file(fsys, file, fails) ==
    IF fsys[file].isfile /\ file \notin fails
    THEN [fsys EXCEPT ![file] = Absent]
    ELSE fsys

\* mutant: the size of an existing file is not looked at
FileBypass_NoSize(fsys, res, file) ==
    IF fsys[file].isfile
    THEN (IF res THEN TRUE ELSE FALSE)
    ELSE FALSE

\* one element of the bypass list of check_outfiles
FileBypass(fsys, res, file) ==
    IF fsys[file].isfile
    THEN (IF res /\ fsys[file].size > 0 THEN TRUE ELSE FALSE)
    ELSE FALSE

BypassList(fsys, res, outs) ==
    [i \in 1..Len(outs) |-> FileBypass(fsys, res, outs[i])]

\* mutant: "or bypass" in place of "or not bypass" at line 238
check_outfiles_NotDropped(fsys, res, outs) ==
    LET bl == BypassList(fsys, res, outs)
    IN  IF (FALSE \in Range(bl)) \/ bl # <<>> THEN FALSE ELSE TRUE

\* check_outfiles: the value it returns
check_outfiles(fsys, res, outs) ==
    LET bl == BypassList(fsys, res, outs)
    IN  IF (FALSE \in Range(bl)) \/ bl = <<>> THEN FALSE ELSE TRUE

\* mutant: only the outputs found missing or empty are removed
RemovalList_OnlyInvalid(fsys, res, outs) ==
    LET Invalid(f) == ~FileBypass(fsys, res, f)
    IN  IF check_outfiles(fsys, res, outs) THEN <<>> ELSE SelectSeq(outs, Invalid)

\* mutant: the removal loop runs whatever the bypass list says
RemovalList_Always(fsys, res, outs) == outs

\* check_outfiles: the files its removal loop visits
RemovalList(fsys, res, outs) ==
    IF check_outfiles(fsys, res, outs) THEN <<>> ELSE outs

RECURSIVE RemoveAll(_, _, _)
RemoveAll(fsys, files, fails) ==
    IF files = <<>> THEN fsys
    ELSE RemoveAll(remove_file(fsys, Head(files), fails), Tail(files), fails)

\* open(path, "w"): creates or truncates
OpenW(fsys, file) ==
    [fsys EXCEPT ![file] =
        [isfile |-> TRUE, size |-> 0,
         readable |-> IF fsys[file].isfile THEN fsys[file].readable ELSE TRUE]]

\* ---------------------------------------------------------- execute_command
ExecInit ==
    /\ fs \in [Files -> FileStates]
    /\ resume \in BOOLEAN
    /\ exeInPath \in BOOLEAN
    /\ infiles \in PathLists
    /\ outfiles \in PathLists
    /\ stdout_file \in Redirects
    /\ stdin_file \in IF stdout_file = <<>> THEN {<<>>} ELSE Redirects
    /\ pc = "find_exe"
    /\ exc = ""
    /\ bypass = FALSE
    /\ childStarts = 0
    /\ exitStatus = "none"
    /\ fs0 = fs
    /\ fresh = {}
    /\ delFailed = {}
    /\ prevFailed = FALSE
    /\ DispIdle
    /\ ChunkIdle

Raise(e) ==
    /\ pc' = "raised"
    /\ exc' = e

\* lines 322-327
FindExe ==
    /\ pc = "find_exe"
    /\ UNCHANGED <<dispVars, chunkVars, prevFailed>>
    /\ IF exeInPath
       THEN pc' = "check_inputs" /\ exc' = exc
       ELSE Raise("EnvironmentError")
    /\ UNCHANGED <<fs, resume, exeInPath, infiles, outfiles, stdout_file,
                   stdin_file, bypass, childStarts, exitStatus, fs0, fresh,
                   delFailed>>

\* mutant: the inputs are not looked at when the gate is going to bypass
CheckInputs_SkippedOnBypass ==
    /\ pc = "check_inputs"
    /\ UNCHANGED <<dispVars, chunkVars, prevFailed>>
    /\ IF \/ check_outfiles(fs, resume, outfiles)
          \/ \A i \in 1..Len(infiles) : file_exists_readable(fs, infiles[i])
       THEN pc' = "check_outfiles" /\ exc' = exc
       ELSE Raise("IOError")
    /\ UNCHANGED <<fs, resume, exeInPath, infiles, outfiles, stdout_file,
                   stdin_file, bypass, childStarts, exitStatus, fs0, fresh,
                   delFailed>>

\* lines 329-332
CheckInputs ==
    /\ pc = "check_inputs"
    /\ UNCHANGED <<dispVars, chunkVars, prevFailed>>
    /\ IF \A i \in 1..Len(infiles) : file_exists_readable(fs, infiles[i])
       THEN pc' = "check_outfiles" /\ exc' = exc
       ELSE Raise("IOError")
    /\ UNCHANGED <<fs, resume, exeInPath, infiles, outfiles, stdout_file,
                   stdin_file, bypass, childStarts, exitStatus, fs0, fresh,
                   delFailed>>

\* lines 334-340 and 370-374: the gate, its removals, and the bypass return
CheckOutfiles ==
    /\ pc = "check_outfiles"
    /\ UNCHANGED <<dispVars, chunkVars, prevFailed>>
    /\ LET toRemove == RemovalList(fs, resume, outfiles)
       IN  \E fails \in SUBSET {f \in Range(toRemove) : fs[f].isfile} :
              /\ fs' = RemoveAll(fs, toRemove, fails)
              /\ delFailed' = fails
    /\ bypass' = check_outfiles(fs, resume, outfiles)
    /\ pc' = IF bypass' THEN "returned" ELSE "call"
    /\ UNCHANGED <<resume, exeInPath, infiles, outfiles, stdout_file,
                   stdin_file, exc, childStarts, exitStatus, fs0, fresh>>

\* lines 349-356 up to the start of the child: the redirections are opened
\* (stdin first), then the child process is created
StartChild ==
    /\ pc = "call"
    /\ UNCHANGED <<dispVars, chunkVars, prevFailed>>
    /\ IF stdout_file # <<>> /\ stdin_file # <<>>
          /\ ~file_exists_readable(fs, stdin_file[1])
       THEN \* open(stdin_file, "r") raises IOError; caught at 358, re-raised
            /\ Raise("IOError")
            /\ UNCHANGED <<fs, fresh, childStarts, exitStatus>>
       ELSE /\ fs' = IF stdout_file # <<>> THEN OpenW(fs, stdout_file[1]) ELSE fs
            /\ fresh' = IF stdout_file # <<>> /\ ~fs[stdout_file[1]].isfile
                        THEN fresh \cup {stdout_file[1]} ELSE fresh
            /\ \E spawned \in BOOLEAN :
                 IF spawned
                 THEN /\ pc' = "child"
                      /\ exc' = exc
                      /\ childStarts' = childStarts + 1
                      /\ exitStatus' = exitStatus
                 ELSE \* Popen raises OSError; caught at 358, re-raised
                      /\ Raise("OSError")
                      /\ childStarts' = childStarts
                      /\ exitStatus' = "nostart"
    /\ UNCHANGED <<resume, exeInPath, infiles, outfiles, stdout_file,
                   stdin_file, bypass, fs0, delFailed>>

\* what the child may write: its declared outputs and its standard output
ChildTargets == Range(outfiles) \cup Range(stdout_file)

ChildWrites == [ChildTargets -> {"keep", "empty", "full"}]

AfterChild(fsys, w) ==
    [f \in Files |->
        IF f \notin ChildTargets \/ w[f] = "keep" THEN fsys[f]
        ELSE [isfile |-> TRUE,
              size |-> IF w[f] = "empty" THEN 0 ELSE 1,
              readable |-> IF fsys[f].isfile THEN fsys[f].readable ELSE TRUE]]

\* what execute_command does with the child's exit status: with stdout_file
\* set subprocess.call returns it (line 352/354) and nothing reads it; without,
\* subprocess.check_output raises CalledProcessError on a non-zero status
RaisesOnExit(redirected, code) ==
    IF redirected THEN FALSE ELSE code # 0

\* lines 350-363: the child runs to its end
ChildExit ==
    /\ pc = "child"
    /\ UNCHANGED <<dispVars, chunkVars, prevFailed>>
    /\ \E code \in {0, 1}, w \in ChildWrites :
         /\ fs' = AfterChild(fs, w)
         /\ fresh' = fresh \cup {f \in ChildTargets : w[f] # "keep" /\ ~fs[f].isfile}
         /\ exitStatus' = IF code = 0 THEN "zero" ELSE "nonzero"
         /\ IF RaisesOnExit(stdout_file # <<>>, code)
            THEN Raise("CalledProcessError")
            ELSE pc' = "check_outputs" /\ exc' = exc
    /\ UNCHANGED <<resume, exeInPath, infiles, outfiles, stdout_file,
                   stdin_file, bypass, childStarts, fs0, delFailed>>

\* mutant: the outputs are not looked at after the child has ended
CheckOutputs_Skipped ==
    /\ pc = "check_outputs"
    /\ UNCHANGED <<dispVars, chunkVars, prevFailed>>
    /\ pc' = "returned"
    /\ exc' = exc
    /\ UNCHANGED <<fs, resume, exeInPath, infiles, outfiles, stdout_file,
                   stdin_file, bypass, childStarts, exitStatus, fs0, fresh,
                   delFailed>>

\* lines 365-368
CheckOutputs ==
    /\ pc = "check_outputs"
    /\ UNCHANGED <<dispVars, chunkVars, prevFailed>>
    /\ IF \A i \in 1..Len(outfiles) : file_exists_readable(fs, outfiles[i])
       THEN pc' = "returned" /\ exc' = exc
       ELSE Raise("IOError")
    /\ UNCHANGED <<fs, resume, exeInPath, infiles, outfiles, stdout_file,
                   stdin_file, bypass, childStarts, exitStatus, fs0, fresh,
                   delFailed>>

\* the run that has just ended failed: its child could not be started or
\* exited non-zero (lines 358-363), or a declared output was missing
\* afterwards (lines 365-368)
RunFailed ==
    \/ exitStatus \in {"nostart", "nonzero"}
    \/ pc = "raised" /\ exitStatus = "zero"

\* the caller runs the same invocation again (a resumed pipeline)
Rerun ==
    /\ pc \in {"returned", "raised"}
    /\ UNCHANGED <<dispVars, chunkVars>>
    /\ prevFailed' = RunFailed
    /\ pc' = "find_exe"
    /\ exc' = ""
    /\ bypass' = FALSE
    /\ childStarts' = 0
    /\ exitStatus' = "none"
    /\ fs0' = fs
    /\ fresh' = {}
    /\ delFailed' = {}
    /\ UNCHANGED <<fs, resume, exeInPath, infiles, outfiles, stdout_file,
                   stdin_file>>

ExecNext ==
    \/ FindExe
    \/ CheckInputs
    \/ CheckOutfiles
    \/ StartChild
    \/ ChildExit
    \/ CheckOutputs
    \/ Rerun

ExecSpec == ExecInit /\ [][ExecNext]_vars

\* -------------------------------------------------- command_multiprocessing
\* what function does on an argument tuple: it returns, or it raises
ArgLists == UNION {[1..n -> {"ok", "fail"}] : n \in 0..MaxArgs}

\* the exception classes of the except clause at line 301
Caught == {"EnvironmentError", "ValueError", "CalledProcessError"}

\* what function may raise: the three above, or anything else
Raisable == Caught \cup {"KeyError"}

\* the value function returns on the i-th argument tuple
ResultOf(i) == i

\* lines 276, 278, 296, 299: which strategy runs the batch
Mode(t, l) ==
    IF t > 1 THEN (IF l THEN "queue" ELSE "pool") ELSE "seq"

\* invocations a worker (or the dispatcher itself) is executing
InFlight ==
    {wcur[w] : w \in {v \in Workers : wpc[v] \in {"call", "pcall"}}}
        \cup (IF dcur # 0 THEN {dcur} ELSE {})

DispInit ==
    /\ threads \in 0..MaxThreads
    /\ lock \in BOOLEAN
    /\ args \in ArgLists
    /\ dpc = "start"
    /\ dexc = ""
    /\ wexc = ""
    /\ work_queue = <<>>
    /\ unfinished = 0
    /\ results_queue = <<>>
    /\ results = <<>>
    /\ wpc = [w \in Workers |-> "none"]
    /\ wcur = [w \in Workers |-> 0]
    /\ slots = <<>>
    /\ nput = 0
    /\ dcur = 0
    /\ started = <<>>
    /\ finished = <<>>
    /\ ExecIdle
    /\ ChunkIdle

\* an exception reaches the try of command_multiprocessing: the clause at
\* line 301 takes the classes it names, anything else leaves the function
DispRaise(e) ==
    /\ dexc' = e
    /\ dpc' = IF e \in Caught THEN "except" ELSE "crashed"

\* mutant: one worker more than threads is created
StartWorkers_OneMore ==
    /\ dpc = "start"
    /\ UNCHANGED <<execVars, chunkVars, wexc>>
    /\ LET m == Mode(threads, lock)
       IN  /\ dpc' = IF m = "queue" THEN "put" ELSE IF m = "pool" THEN "map" ELSE "seq"
           /\ wpc' = [w \in Workers |->
                        IF m = "seq" \/ w > threads + 1 THEN "none"
                        ELSE IF m = "queue" THEN "get" ELSE "ptake"]
           /\ work_queue' = IF m = "pool" THEN [i \in 1..Len(args) |-> i] ELSE work_queue
           /\ slots' = IF m = "pool" THEN [i \in 1..Len(args) |-> 0] ELSE slots
    /\ UNCHANGED <<threads, lock, args, dexc, unfinished, results_queue, results,
                   wcur, nput, dcur, started, finished>>

\* lines 276-286 and 296-298: the workers of the chosen strategy are created;
\* pool.map hands every argument tuple to the pool at once
StartWorkers ==
    /\ dpc = "start"
    /\ UNCHANGED <<execVars, chunkVars, wexc>>
    /\ LET m == Mode(threads, lock)
       IN  /\ dpc' = IF m = "queue" THEN "put" ELSE IF m = "pool" THEN "map" ELSE "seq"
           /\ wpc' = [w \in Workers |->
                        IF m = "seq" \/ w > threads THEN "none"
                        ELSE IF m = "queue" THEN "get" ELSE "ptake"]
           /\ work_queue' = IF m = "pool" THEN [i \in 1..Len(args) |-> i] ELSE work_queue
           /\ slots' = IF m = "pool" THEN [i \in 1..Len(args) |-> 0] ELSE slots
    /\ UNCHANGED <<threads, lock, args, dexc, unfinished, results_queue, results,
                   wcur, nput, dcur, started, finished>>

\* lines 288-289: work_queue.put(arg)
Put ==
    /\ dpc = "put"
    /\ UNCHANGED <<execVars, chunkVars, wexc>>
    /\ nput < Len(args)
    /\ nput' = nput + 1
    /\ work_queue' = Append(work_queue, nput + 1)
    /\ unfinished' = unfinished + 1
    /\ UNCHANGED <<threads, lock, args, dpc, dexc, results_queue, results, wpc,
                   wcur, slots, dcur, started, finished>>

\* mutant: the dispatcher goes on to collect without waiting for the queue
Join_NoWait ==
    /\ dpc = "put"
    /\ UNCHANGED <<execVars, chunkVars, wexc>>
    /\ nput = Len(args)
    /\ dpc' = "collect"
    /\ UNCHANGED <<threads, lock, args, dexc, work_queue, unfinished,
                   results_queue, results, wpc, wcur, slots, nput, dcur,
                   started, finished>>

\* line 290: work_queue.join() returns once no task is unfinished
Join ==
    /\ dpc = "put"
    /\ UNCHANGED <<execVars, chunkVars, wexc>>
    /\ nput = Len(args)
    /\ unfinished = 0
    /\ dpc' = "collect"
    /\ UNCHANGED <<threads, lock, args, dexc, work_queue, unfinished,
                   results_queue, results, wpc, wcur, slots, nput, dcur,
                   started, finished>>

\* lines 294-295: results.append(results_queue.get()), blocking while empty
Collect ==
    /\ dpc = "collect"
    /\ UNCHANGED <<execVars, chunkVars, wexc>>
    /\ Len(results) < Len(args)
    /\ results_queue # <<>>
    /\ results' = Append(results, Head(results_queue))
    /\ results_queue' = Tail(results_queue)
    /\ UNCHANGED <<threads, lock, args, dpc, dexc, work_queue, unfinished, wpc,
                   wcur, slots, nput, dcur, started, finished>>

\* mutant: the item is read from the queue and left in it
WorkerGet_Peek(w) ==
    /\ wpc[w] = "get"
    /\ UNCHANGED <<execVars, chunkVars, wexc>>
    /\ work_queue # <<>>
    /\ wcur' = [wcur EXCEPT ![w] = Head(work_queue)]
    /\ started' = Append(started, Head(work_queue))
    /\ wpc' = [wpc EXCEPT ![w] = "call"]
    /\ UNCHANGED <<threads, lock, args, dpc, dexc, work_queue, unfinished,
                   results_queue, results, slots, nput, dcur, finished>>

\* line 260: args = self.work_queue.get(), then line 261 begins the call
WorkerGet(w) ==
    /\ wpc[w] = "get"
    /\ UNCHANGED <<execVars, chunkVars, wexc>>
    /\ work_queue # <<>>
    /\ wcur' = [wcur EXCEPT ![w] = Head(work_queue)]
    /\ work_queue' = Tail(work_queue)
    /\ started' = Append(started, Head(work_queue))
    /\ finished' = finished
    /\ wpc' = [wpc EXCEPT ![w] = "call"]
    /\ UNCHANGED <<threads, lock, args, dpc, dexc, unfinished, results_queue,
                   results, slots, nput, dcur>>

\* line 261: self.function(args) returns or raises
WorkerCall(w) ==
    /\ wpc[w] = "call"
    /\ UNCHANGED <<execVars, chunkVars>>
    /\ wpc' = [wpc EXCEPT ![w] = IF args[wcur[w]] = "ok" THEN "put" ELSE "finally"]
    /\ IF args[wcur[w]] = "ok" \/ wexc # ""
       THEN wexc' = wexc
       ELSE \E e \in Raisable : wexc' = e
    /\ finished' = Append(finished, wcur[w])
    /\ UNCHANGED <<threads, lock, args, dpc, dexc, work_queue, unfinished,
                   results_queue, results, wcur, slots, nput, dcur, started>>

\* line 262: self.results_queue.put(results)
WorkerPut(w) ==
    /\ wpc[w] = "put"
    /\ UNCHANGED <<execVars, chunkVars, wexc>>
    /\ results_queue' = Append(results_queue, ResultOf(wcur[w]))
    /\ wpc' = [wpc EXCEPT ![w] = "task_done"]
    /\ UNCHANGED <<threads, lock, args, dpc, dexc, work_queue, unfinished,
                   results, wcur, slots, nput, dcur, started, finished>>

\* mutant: run leaves its loop after the first item
AfterFinally_NoLoop(p) == "dead"

\* where run goes after the finally clause: back to the loop, or out of run
\* with the exception of the call, which ends the worker process
AfterFinally(p) == IF p = "task_done" THEN "get" ELSE "dead"

\* lines 263-264: finally: self.work_queue.task_done()
WorkerTaskDone(w) ==
    /\ wpc[w] \in {"task_done", "finally"}
    /\ UNCHANGED <<execVars, chunkVars, wexc>>
    /\ unfinished' = unfinished - 1
    /\ wpc' = [wpc EXCEPT ![w] = AfterFinally(wpc[w])]
    /\ wcur' = [wcur EXCEPT ![w] = 0]
    /\ UNCHANGED <<threads, lock, args, dpc, dexc, work_queue, results_queue,
                   results, slots, nput, dcur, started, finished>>

\* line 298, inside pool.map: a free pool worker takes the next pending task
PoolTake(w) ==
    /\ wpc[w] = "ptake"
    /\ dpc \in {"map", "except"}
    /\ UNCHANGED <<execVars, chunkVars, wexc>>
    /\ work_queue # <<>>
    /\ wcur' = [wcur EXCEPT ![w] = Head(work_queue)]
    /\ work_queue' = Tail(work_queue)
    /\ started' = Append(started, Head(work_queue))
    /\ finished' = finished
    /\ wpc' = [wpc EXCEPT ![w] = "pcall"]
    /\ UNCHANGED <<threads, lock, args, dpc, dexc, unfinished, results_queue,
                   results, slots, nput, dcur>>

\* pool.map: the slot of the result list a finished task fills
SlotOf(i) == i

\* line 298, inside pool.map: the task ends; its result goes to its slot, its
\* exception is raised again by map in the dispatcher
PoolFinish(w) ==
    /\ wpc[w] = "pcall"
    /\ dpc \in {"map", "except"}
    /\ UNCHANGED <<execVars, chunkVars, wexc>>
    /\ wpc' = [wpc EXCEPT ![w] = "ptake"]
    /\ wcur' = [wcur EXCEPT ![w] = 0]
    /\ IF args[wcur[w]] = "ok"
       THEN /\ slots' = [slots EXCEPT ![SlotOf(wcur[w])] = ResultOf(wcur[w])]
            /\ UNCHANGED <<dpc, dexc>>
       ELSE /\ slots' = slots
            /\ IF dpc = "map"
               THEN \E e \in Raisable : DispRaise(e)
               ELSE UNCHANGED <<dpc, dexc>>
    /\ finished' = Append(finished, wcur[w])
    /\ UNCHANGED <<threads, lock, args, work_queue, unfinished, results_queue,
                   results, nput, dcur, started>>

\* mutant: the results come back in the order the tasks ended
MapReturn_Unordered ==
    /\ dpc = "map"
    /\ UNCHANGED <<execVars, chunkVars, wexc>>
    /\ \A i \in 1..Len(slots) : slots[i] # 0
    /\ results' = [i \in 1..Len(finished) |-> slots[finished[i]]]
    /\ dpc' = "returned"
    /\ UNCHANGED <<threads, lock, args, dexc, work_queue, unfinished,
                   results_queue, wpc, wcur, slots, nput, dcur, started,
                   finished>>

\* line 298: pool.map returns the list of results in submission order
MapReturn ==
    /\ dpc = "map"
    /\ UNCHANGED <<execVars, chunkVars, wexc>>
    /\ \A i \in 1..Len(slots) : slots[i] # 0
    /\ results' = slots
    /\ dpc' = "returned"
    /\ UNCHANGED <<threads, lock, args, dexc, work_queue, unfinished,
                   results_queue, wpc, wcur, slots, nput, dcur, started,
                   finished>>

\* mutant: the list is walked from its end
NextArg_Reversed(a, done) == Len(a) - done

\* line 300: the argument tuple the list comprehension calls function on next
NextArg(a, done) == done + 1

\* line 300: function(arg) is called
SeqStart ==
    /\ dpc = "seq"
    /\ UNCHANGED <<execVars, chunkVars, wexc>>
    /\ dcur = 0
    /\ Len(results) < Len(args)
    /\ dcur' = NextArg(args, Len(results))
    /\ started' = Append(started, dcur')
    /\ finished' = finished
    /\ UNCHANGED <<threads, lock, args, dpc, dexc, work_queue, unfinished,
                   results_queue, results, wpc, wcur, slots, nput>>

\* line 300: function(arg) returns, or raises into the try of line 275
SeqFinish ==
    /\ dpc = "seq"
    /\ UNCHANGED <<execVars, chunkVars, wexc>>
    /\ dcur # 0
    /\ dcur' = 0
    /\ IF args[dcur] = "ok"
       THEN /\ results' = Append(results, ResultOf(dcur))
            /\ UNCHANGED <<dpc, dexc>>
       ELSE /\ results' = results
            /\ \E e \in Raisable : DispRaise(e)
    /\ finished' = Append(finished, dcur)
    /\ UNCHANGED <<threads, lock, args, work_queue, unfinished, results_queue,
                   wpc, wcur, slots, nput, started>>

\* mutant: the except clause logs and falls through to the return
Except_Returns ==
    /\ dpc = "except"
    /\ UNCHANGED <<execVars, chunkVars, wexc>>
    /\ dpc' = "returned"
    /\ UNCHANGED <<threads, lock, args, dexc, work_queue, unfinished,
                   results_queue, results, wpc, wcur, slots, nput, dcur,
                   started, finished>>

\* lines 301-306: the except clause logs and calls sys.exit(message)
Except ==
    /\ dpc = "except"
    /\ UNCHANGED <<execVars, chunkVars, wexc>>
    /\ dpc' = "exited"
    /\ UNCHANGED <<threads, lock, args, dexc, work_queue, unfinished,
                   results_queue, results, wpc, wcur, slots, nput, dcur,
                   started, finished>>

\* line 308: return results
Return ==
    /\ dpc \in {"collect", "seq"}
    /\ UNCHANGED <<execVars, chunkVars, wexc>>
    /\ dcur = 0
    /\ Len(results) = Len(args)
    /\ dpc' = "returned"
    /\ UNCHANGED <<threads, lock, args, dexc, work_queue, unfinished,
                   results_queue, results, wpc, wcur, slots, nput, dcur,
                   started, finished>>

DispNext ==
    \/ StartWorkers
    \/ Put
    \/ Join
    \/ Collect
    \/ \E w \in Workers : WorkerGet(w)
    \/ \E w \in Workers : WorkerCall(w)
    \/ \E w \in Workers : WorkerPut(w)
    \/ \E w \in Workers : WorkerTaskDone(w)
    \/ \E w \in Workers : PoolTake(w)
    \/ \E w \in Workers : PoolFinish(w)
    \/ MapReturn
    \/ SeqStart
    \/ SeqFinish
    \/ Except
    \/ Return

DispatchSpec == DispInit /\ [][DispNext]_vars

\* the steps of the process that called command_multiprocessing
Dispatcher ==
    \/ StartWorkers
    \/ Put
    \/ Join
    \/ Collect
    \/ MapReturn
    \/ SeqStart
    \/ SeqFinish
    \/ Except
    \/ Return

\* the steps of worker process w
Worker(w) ==
    \/ WorkerGet(w)
    \/ WorkerCall(w)
    \/ WorkerPut(w)
    \/ WorkerTaskDone(w)
    \/ PoolTake(w)
    \/ PoolFinish(w)

\* a call in persistent-worker mode (threads > 1 and lock set, line 276)
\* with a batch on which function returns for every item
QueueBatchInit ==
    /\ DispInit
    /\ Mode(threads, lock) = "queue"
    /\ \A i \in 1..Len(args) : args[i] = "ok"

\* the steps of lines 278-295 and of MultiprocessingWorker.run
QueueNext ==
    \/ StartWorkers
    \/ Put
    \/ Join
    \/ Collect
    \/ Return
    \/ \E w \in Workers : WorkerGet(w)
    \/ \E w \in Workers : WorkerCall(w)
    \/ \E w \in Workers : WorkerPut(w)
    \/ \E w \in Workers : WorkerTaskDone(w)

\* every process is an operating-system process of its own: one that can
\* take a step is eventually scheduled
FairQueueSpec ==
    /\ QueueBatchInit
    /\ [][QueueNext]_vars
    /\ WF_vars(Dispatcher)
    /\ \A w \in Workers : WF_vars(Worker(w))

\* ------------------------------------------------------ break_up_fasta_file
SourceFiles == UNION {[1..n -> {">", "s"}] : n \in 0..MaxLines}

\* line 488: re.search("^>", line)
IsHeader(line) == line = ">"

\* mutant: the chunk is taken for full one record early
ChunkFull_OneEarly(cur, k) == cur + 1 = k

\* line 491: the current chunk is full
ChunkFull(cur, k) == cur = k

\* records (header lines) among the given line numbers of the source
Headers(nums) == {i \in nums : IsHeader(lines[i])}

ChunkInit ==
    /\ lines \in SourceFiles
    /\ max_seqs \in 0..MaxSeqs
    /\ cpc = "open"
    /\ pos = 0
    /\ current_seq = 0
    /\ fasta_files = <<>>
    /\ ExecIdle
    /\ DispIdle

\* lines 475-486: the first line is read and the first chunk file is opened
OpenFirst ==
    /\ cpc = "open"
    /\ UNCHANGED <<execVars, dispVars>>
    /\ pos' = 1
    /\ fasta_files' = << <<>> >>
    /\ current_seq' = 0
    /\ cpc' = "loop"
    /\ UNCHANGED <<lines, max_seqs>>

\* mutant: the line goes to the file opened first
WriteLine_First(files, n) ==
    [files EXCEPT ![1] = Append(files[1], n)]

\* file_out.write(line): the line goes to the file opened last
WriteLine(files, n) ==
    [files EXCEPT ![Len(files)] = Append(files[Len(files)], n)]

\* mutant: the header that opens a new chunk is not counted
ReadLine_ResetZero ==
    /\ cpc = "loop"
    /\ UNCHANGED <<execVars, dispVars>>
    /\ pos <= Len(lines)
    /\ IF ~IsHeader(lines[pos])
       THEN /\ fasta_files' = WriteLine(fasta_files, pos)
            /\ current_seq' = current_seq
       ELSE IF ChunkFull(current_seq, max_seqs)
            THEN /\ fasta_files' = Append(fasta_files, <<pos>>)
                 /\ current_seq' = 0
            ELSE /\ current_seq' = current_seq + 1
                 /\ fasta_files' = WriteLine(fasta_files, pos)
    /\ pos' = pos + 1
    /\ UNCHANGED <<lines, max_seqs, cpc>>

\* lines 487-504: one turn of the while loop
ReadLine ==
    /\ cpc = "loop"
    /\ UNCHANGED <<execVars, dispVars>>
    /\ pos <= Len(lines)
    /\ IF ~IsHeader(lines[pos])
       THEN /\ fasta_files' = WriteLine(fasta_files, pos)
            /\ current_seq' = current_seq
       ELSE IF ChunkFull(current_seq, max_seqs)
            THEN /\ fasta_files' = Append(fasta_files, <<pos>>)
                 /\ current_seq' = 1
            ELSE /\ current_seq' = current_seq + 1
                 /\ fasta_files' = WriteLine(fasta_files, pos)
    /\ pos' = pos + 1
    /\ UNCHANGED <<lines, max_seqs, cpc>>

\* lines 506-509: readline returned "", the files are closed, the list returned
CloseLast ==
    /\ cpc = "loop"
    /\ UNCHANGED <<execVars, dispVars>>
    /\ pos > Len(lines)
    /\ cpc' = "done"
    /\ UNCHANGED <<lines, max_seqs, pos, current_seq, fasta_files>>

ChunkNext ==
    \/ OpenFirst
    \/ ReadLine
    \/ CloseLast

ChunkSpec == ChunkInit /\ [][ChunkNext]_vars

\* ================================================================ properties
\* ---------------------------------------------- execute_command, the gate

\* the executable resolves and every declared input is a readable file
InputsFine ==
    /\ exeInPath
    /\ \A i \in 1..Len(infiles) : file_exists_readable(fs0, infiles[i])

\* every declared output was a non-empty file when the run began
OutputsComplete ==
    \A i \in 1..Len(outfiles) :
        fs0[outfiles[i]].isfile /\ fs0[outfiles[i]].size > 0

\* C2: a run that is not bypassed and whose child exits with a non-zero
\* status, or cannot be started, never returns normally - with or without
\* redirection.
C2_FailedChildNeverReturns ==
    pc = "returned" => exitStatus \notin {"nonzero", "nostart"}

\* C2, as far as the code goes: without stdout_file a run whose child exits
\* non-zero or cannot be started never returns normally; and no run returns
\* when the child could not be started.
C2_UnredirectedFailedChildNeverReturns ==
    pc = "returned" =>
        /\ exitStatus # "nostart"
        /\ (stdout_file = <<>> => exitStatus # "nonzero")

\* C3: with the executable resolved, the inputs readable, a non-empty output
\* list whose files all pre-exist non-empty and resume enabled, the run starts
\* no child process, raises nothing and ends by returning.
C3_CompleteOutputsBypass ==
    (InputsFine /\ resume /\ outfiles # <<>> /\ OutputsComplete) =>
        /\ childStarts = 0
        /\ pc \in {"find_exe", "check_inputs", "check_outfiles", "returned"}
        /\ (pc = "returned" => bypass)

C3_Witness ==
    /\ InputsFine /\ resume /\ Len(outfiles) = 2 /\ OutputsComplete
    /\ infiles # <<>>
    /\ pc = "returned"
    /\ childStarts = 0

\* the gate has just run: execute_command is about to call the child, or has
\* returned without one
JustGated == pc = "call" \/ (pc = "returned" /\ childStarts = 0)

\* C4: check_outfiles returns true exactly when resume is enabled, the output
\* list is not empty and every listed path is a file of size > 0.
C4_BypassIff ==
    JustGated =>
        (bypass <=> (resume /\ outfiles # <<>> /\ OutputsComplete))

C4_Witness ==
    /\ JustGated
    /\ ~bypass
    /\ resume
    /\ Len(outfiles) = 2
    /\ fs0[outfiles[1]].isfile /\ fs0[outfiles[1]].size > 0
    /\ fs0[outfiles[2]].isfile /\ fs0[outfiles[2]].size = 0

\* a declared output that was there before the run and is still there
StaleOutputs ==
    {f \in Range(outfiles) : fs[f].isfile /\ f \notin fresh}

\* C5: when the gate does not bypass, then from the gate to the moment the
\* child has started no declared output file from before the run remains,
\* save those whose deletion failed.
C5_NoStaleOutputAtChildStart ==
    pc \in {"call", "child"} => StaleOutputs \subseteq delFailed

C5_Witness ==
    /\ pc = "child"
    /\ resume
    /\ delFailed = {}
    /\ \E f \in Range(outfiles) : fs0[f].isfile /\ fs0[f].size > 0
    /\ \E f \in Range(outfiles) : ~fs0[f].isfile

\* ------------------------------------------------- command_multiprocessing
QueueMode == Mode(threads, lock) = "queue"
PoolMode  == Mode(threads, lock) = "pool"
SeqMode   == Mode(threads, lock) = "seq"

AllSucceed == \A i \in 1..Len(args) : args[i] = "ok"

\* an invocation raised inside a persistent worker
WorkerRaised == \E w \in Workers : wpc[w] \in {"finally", "dead"}

\* an invocation whose call has ended raised
SomeRaised == \E k \in 1..Len(finished) : args[finished[k]] = "fail"

NoRepeats(q) == \A i \in 1..Len(q), j \in 1..Len(q) : i # j => q[i] # q[j]

InOrder(q) == q = [i \in 1..Len(q) |-> i]

\* C1: in persistent-worker mode, once an invocation has raised inside a
\* worker the dispatch call never returns a result list and does not block for
\* ever: it is either still moving or has ended the process by sys.exit.
C1_WorkerFailureExits ==
    (QueueMode /\ WorkerRaised) =>
        /\ dpc # "returned"
        /\ (dpc = "exited" \/ ENABLED DispNext)

\* C6: in persistent-worker mode with a batch that succeeds, no invocation is
\* pulled or executed twice, and the returned list holds exactly one result
\* per submitted invocation.
C6_QueueExactlyOnce ==
    (QueueMode /\ AllSucceed) =>
        /\ NoRepeats(started)
        /\ NoRepeats(finished)
        /\ (dpc = "returned" =>
              /\ Len(results) = Len(args)
              /\ NoRepeats(results)
              /\ Range(results) = {ResultOf(i) : i \in 1..Len(args)}
              /\ Range(started) = 1..Len(args)
              /\ results_queue = <<>>)

C6_Witness ==
    /\ QueueMode
    /\ dpc = "returned"
    /\ Len(args) = 3
    /\ ~InOrder(results)
    /\ Cardinality({w \in Workers : wpc[w] # "none"}) >= 2

\* C7: in pool mode the returned list has one element per submitted
\* invocation and its i-th element is the result of the i-th invocation,
\* whatever the order the workers ended them in.
C7_PoolKeepsOrder ==
    (PoolMode /\ dpc = "returned") =>
        results = [i \in 1..Len(args) |-> ResultOf(i)]

C7_Witness ==
    /\ PoolMode
    /\ dpc = "returned"
    /\ Len(args) = 3
    /\ ~InOrder(finished)

\* C8: with threads <= 1 the invocations are called one at a time in input
\* order, the next one only after the one before has ended, and the returned
\* list is the list of their results in input order.
C8_SequentialInOrder ==
    SeqMode =>
        /\ InOrder(started)
        /\ InOrder(finished)
        /\ Len(started) <= Len(finished) + 1
        /\ (dcur # 0 <=> Len(started) = Len(finished) + 1)
        /\ (dpc = "returned" =>
              results = [i \in 1..Len(args) |-> ResultOf(i)])

C8_Witness ==
    /\ SeqMode
    /\ dpc = "returned"
    /\ Len(args) = 3
    /\ results = <<ResultOf(1), ResultOf(2), ResultOf(3)>>

\* C9: in sequential and in pool mode an invocation that raises one of the
\* exceptions of the except clause makes the dispatcher end the process by
\* sys.exit and never return a list; in sequential mode nothing positioned
\* after a failing invocation is ever started.
C9_FailureAbortsBatch ==
    (~QueueMode) =>
        /\ (SomeRaised => dexc # "" /\ dpc # "returned")
        /\ (dexc \in Caught => dpc \in {"except", "exited"})
        /\ (dpc = "except" => ENABLED Except)
        /\ (SeqMode =>
              \A k \in 1..Len(started) :
                  \A j \in 1..(started[k] - 1) : args[j] = "ok")

C9_Witness ==
    /\ SeqMode
    /\ dpc = "exited"
    /\ dexc = "CalledProcessError"
    /\ Len(args) = 3
    /\ started = <<1, 2>>

\* ------------------------------------------------------ break_up_fasta_file
\* R: the records of the source
Records == Cardinality(Headers(1..Len(lines)))

CeilDiv(n, k) == (n + k - 1) \div k

\* C10: with max_seqs = k >= 1 a source of R records comes back as ceil(R/k)
\* chunk files when R > 0 and as one chunk file when R = 0.
C10_ChunkCount ==
    (cpc = "done" /\ max_seqs >= 1) =>
        Len(fasta_files) = IF Records > 0 THEN CeilDiv(Records, max_seqs) ELSE 1

C10_Witness ==
    /\ cpc = "done"
    /\ max_seqs = 2
    /\ Records = 5
    /\ Len(fasta_files) = 3

RECURSIVE Concat(_)
Concat(files) ==
    IF files = <<>> THEN <<>> ELSE Head(files) \o Concat(Tail(files))

\* the lines of the source a chunk file holds
ChunkText(chunk) == [i \in 1..Len(chunk) |-> lines[chunk[i]]]

\* C11: for k >= 1 the chunk files, read one after the other in list order,
\* are the source line for line (so every line is in exactly one chunk, the
\* lines before the first header in the first), and every chunk after the
\* first begins with a header line, so no record lies across two chunks.
C11_ChunksPartitionSource ==
    (cpc \in {"loop", "done"} /\ max_seqs >= 1) =>
        /\ Concat(fasta_files) = [i \in 1..(pos - 1) |-> i]
        /\ (cpc = "done" =>
              Concat([c \in 1..Len(fasta_files) |-> ChunkText(fasta_files[c])]) = lines)
        /\ \A c \in 2..Len(fasta_files) :
              /\ fasta_files[c] # <<>>
              /\ IsHeader(lines[fasta_files[c][1]])

C11_Witness ==
    /\ cpc = "done"
    /\ max_seqs = 1
    /\ Len(lines) = 5
    /\ ~IsHeader(lines[1])
    /\ Len(fasta_files) = 2
    /\ Len(fasta_files[1]) = 3
    /\ Len(fasta_files[2]) = 2

\* C12 (inside execute_command): when the executable does not resolve the run
\* raises EnvironmentError at once: nothing is checked, deleted, created or
\* written and no child is started.
C12_ExeNotFoundTouchesNothing ==
    (pc # "idle" /\ ~exeInPath) =>
        /\ pc \in {"find_exe", "raised"}
        /\ (pc = "raised" => exc = "EnvironmentError")
        /\ fs = fs0
        /\ fresh = {}
        /\ delFailed = {}
        /\ childStarts = 0

\* C12 (under the dispatcher): once an invocation has raised the
\* EnvironmentError of an executable that does not resolve, the dispatch call
\* ends the process by sys.exit: it is still moving or it has exited, and it
\* never returns.
C12_ExeNotFoundEndsProcess ==
    (dexc = "EnvironmentError" \/ wexc = "EnvironmentError") =>
        /\ dpc # "returned"
        /\ (dpc = "exited" \/ ENABLED DispNext)

\* a declared input was missing or unreadable when the run began
SomeInputUnreadable ==
    \E i \in 1..Len(infiles) : ~file_exists_readable(fs0, infiles[i])

\* C13: the inputs are checked before the gate: with a declared input missing
\* or unreadable the run never reaches the gate - also when every output is
\* there, non-empty, and resume is on - so it never returns, deletes no
\* output and starts no child; with the executable resolved it ends in
\* IOError.
C13_InputsCheckedBeforeGate ==
    (pc # "idle" /\ SomeInputUnreadable) =>
        /\ pc \in {"find_exe", "check_inputs", "raised"}
        /\ (pc = "raised" /\ exeInPath => exc = "IOError")
        /\ fs = fs0
        /\ delFailed = {}
        /\ childStarts = 0
        /\ ~bypass

C13_Witness ==
    /\ pc = "raised"
    /\ exc = "IOError"
    /\ SomeInputUnreadable
    /\ resume
    /\ outfiles # <<>>
    /\ OutputsComplete
    /\ Range(infiles) \cap Range(outfiles) = {}

\* C14: a run that was not bypassed and returns normally leaves every
\* declared output an existing, readable file; a child that exits with
\* status zero and leaves one absent or unreadable makes the run raise.
C14_ReturnImpliesOutputs ==
    /\ (pc = "returned" /\ ~bypass) =>
          \A i \in 1..Len(outfiles) : file_exists_readable(fs, outfiles[i])
    /\ (pc = "raised" /\ exitStatus = "zero") => exc = "IOError"

C14_Witness ==
    /\ pc = "raised"
    /\ exc = "IOError"
    /\ exitStatus = "zero"
    /\ Len(outfiles) = 2
    /\ file_exists_readable(fs, outfiles[1])
    /\ ~fs[outfiles[2]].isfile

\* C20: a bypassed run leaves every file as it was when the run began: no
\* declared output is deleted, truncated or rewritten, the stdout target is
\* not opened for writing, nothing is created, no child is started.
C20_BypassTouchesNothing ==
    (pc = "returned" /\ bypass) =>
        /\ fs = fs0
        /\ fresh = {}
        /\ delFailed = {}
        /\ childStarts = 0
        /\ exitStatus = "none"

C20_Witness ==
    /\ pc = "returned"
    /\ bypass
    /\ Len(outfiles) = 2
    /\ stdout_file # <<>>
    /\ fs[stdout_file[1]].size > 0

\* the workers created for the dispatch call
Created == {w \in Workers : wpc[w] # "none"}

\* the workers that hold an invocation: pulled, result not yet handed over
Holding == {w \in Workers : wcur[w] # 0}

\* C15: in persistent-worker mode nothing is collected before every submitted
\* item has been queued, pulled and marked done; when the call returns the
\* work queue is empty, nothing is in flight and every worker is alive,
\* blocked in work_queue.get().
C15_CollectAfterDrain ==
    QueueMode =>
        /\ (dpc \in {"collect", "returned"} \/ results # <<>>) =>
              /\ nput = Len(args)
              /\ unfinished = 0
              /\ work_queue = <<>>
              /\ Holding = {}
              /\ Len(finished) = Len(args)
        /\ dpc = "returned" =>
              /\ InFlight = {}
              /\ \A w \in Workers : w <= threads => wpc[w] = "get"

C15_Witness ==
    /\ QueueMode
    /\ dpc = "collect"
    /\ Len(args) = 3
    /\ Len(results) = 1
    /\ Len(results_queue) = 2

\* C16: with threads = W > 1, in both parallel modes, exactly W workers exist
\* once they are created and at no moment are more than W invocations in
\* flight, each held by one worker.
C16_BoundedParallelism ==
    (threads > 1 /\ dpc \notin {"idle", "start"}) =>
        /\ Cardinality(Created) = threads
        /\ Cardinality(Holding) <= threads
        /\ Cardinality(InFlight) <= threads
        /\ Len(started) - Len(finished) <= threads
        /\ \A v \in Holding, w \in Holding : wcur[v] = wcur[w] => v = w

C16_Witness ==
    /\ threads = 2
    /\ Len(args) = 3
    /\ Cardinality(InFlight) = 2
    /\ work_queue # <<>>

\* the number of record-header lines written to chunk c
HeaderCount(c) == Cardinality(Headers(Range(fasta_files[c])))

\* C17: for every max_seqs = k >= 1 no chunk file holds more than k header
\* lines, and every chunk but the last holds exactly k.
C17_ChunkHeaderCounts ==
    (cpc \in {"loop", "done"} /\ max_seqs >= 1) =>
        /\ \A c \in 1..Len(fasta_files) : HeaderCount(c) <= max_seqs
        /\ \A c \in 1..(Len(fasta_files) - 1) : HeaderCount(c) = max_seqs
        /\ HeaderCount(Len(fasta_files)) = current_seq

C17_Witness ==
    /\ cpc = "done"
    /\ max_seqs = 2
    /\ Records = 5
    /\ Len(fasta_files) = 3
    /\ HeaderCount(3) = 1

\* C18: with resume enabled a run is bypassed only after a successful run:
\* after a run that failed (child not started, child exited non-zero, or a
\* declared output missing afterwards) the next run of the same invocation
\* is not bypassed.
C18_NoBypassAfterFailedRun ==
    (pc = "returned" /\ bypass) => ~prevFailed

\* the same property for invocations without redirection, where every
\* non-zero exit raises CalledProcessError
C18_NoBypassAfterRaisedFailure ==
    (pc = "returned" /\ bypass /\ stdout_file = <<>>) => ~prevFailed

\* C19: in persistent-worker mode, for every batch whose invocations all
\* succeed, under fair scheduling the work queue drains, every result is
\* collected and the dispatch call returns with all of them.
C19_QueueModeTerminates ==
    (QueueMode /\ AllSucceed) ~>
        (dpc = "returned" /\ unfinished = 0 /\ Len(results) = Len(args))

C19_Witness ==
    /\ QueueMode
    /\ AllSucceed
    /\ dpc = "returned"
    /\ Len(args) = 3
    /\ threads = 2
    /\ Len(results) = 3

====
